---- MODULE Spec2Model ----
(***************************************************************************)
(* A model of BracketDrawer.py: class BracketGenerator, its constructor,   *)
(* draw_bracket with the two _draw_sub_bracket runs it makes, and          *)
(* get_tournament_seeds.                                                   *)
(*                                                                         *)
(* Coordinates are Python floats in the source.  Every coordinate the      *)
(* claims speak of is a dyadic rational of small denominator, exact in     *)
(* binary64, so the model keeps them as integers:                          *)
(*   x is a multiple of round_width and is kept as it is;                  *)
(*   y is kept in units of 1/YScale (YScale = 2^(1 + most rounds): a leaf  *)
(*                                   sits on a half, each round halves).   *)
(* The line segments handed to ax.plot (the connector at                   *)
(* x1 + round_width/3 * direction among them) are counted, not kept: no    *)
(* later step of the program reads them.                                   *)
(***************************************************************************)
EXTENDS Integers, Sequences, FiniteSets, TLC

\* ---------------------------------------------------------------- bounds
\* longest entrant list handed to draw_bracket
MaxLen == 16
\* most rows of the team table handed to get_tournament_seeds
MaxRows == 17
\* number of different team names in a team table (rows beyond it repeat names)
NumNames == 5

\* ------------------------------------------------------ program constants
\* self.team_height = 1.0
TeamHeight == 1
\* self.round_width = 4.0
RoundWidth == 4

\* Python's None (no pairing table, no swap requested); no list the program
\* builds in these places is empty, so the empty tuple stands for it
None == << >>
\* no exception
NoError == "none"

Min(a, b) == IF a < b THEN a ELSE b
Max(a, b) == IF a > b THEN a ELSE b
Abs(n) == IF n < 0 THEN -n ELSE n

RECURSIVE Pow2(_)
Pow2(n) == IF n <= 0 THEN 1 ELSE 2 * Pow2(n - 1)

\* int.bit_length(): the number of bits of |n|
RECURSIVE BitLength(_)
BitLength(n) == IF Abs(n) = 0 THEN 0 ELSE 1 + BitLength(Abs(n) \div 2)

\* y is kept in units of 1/YScale
YScale == 2 * Pow2(BitLength(MaxLen))

\* Python's list[lo:hi] on a 1-indexed sequence (0 <= lo, hi)
Slice(list, lo, hi) ==
    LET a == Min(lo, Len(list))
        b == Min(hi, Len(list))
    IN  IF b <= a THEN << >> ELSE [k \in 1..(b - a) |-> list[a + k]]

\* list[:s]
Head_(list, s) == Slice(list, 0, s)
\* list[s:]
Tail_(list, s) == Slice(list, s, Len(list))

\* ------------------------------------------------------------ seed tables
\* fault variant: the last pair of the 32 table names seed 16 again and drops 15
GetSeedPairs_dupSeed(class_size) ==
    IF class_size = 32
    THEN << <<1, 16>>, <<8, 9>>, <<4, 13>>, <<5, 12>>,
            <<3, 14>>, <<6, 11>>, <<7, 10>>, <<2, 16>> >>
    ELSE IF class_size = 16
    THEN << <<1, 8>>, <<4, 5>>, <<3, 6>>, <<2, 7>> >>
    ELSE None

\* get_seed_pairs: falls off the end (returns None) for any other size
GetSeedPairs(class_size) ==
    IF class_size = 32
    THEN << <<1, 16>>, <<8, 9>>, <<4, 13>>, <<5, 12>>,
            <<3, 14>>, <<6, 11>>, <<7, 10>>, <<2, 15>> >>
    ELSE IF class_size = 16
    THEN << <<1, 8>>, <<4, 5>>, <<3, 6>>, <<2, 7>> >>
    ELSE None

\* the sizes an engine is constructed with: the two supported ones and two others
ClassSizes == {8, 16, 32, 64}

\* fault variant: the split point taken as half the bracket size
SplitAt_half(class_size) == class_size \div 2

\* the top/bottom split point draw_bracket uses: 8 for size 32, 4 for size 16
SplitAt(class_size) == IF class_size = 32 THEN 8 ELSE 4

\* ------------------------------------------------------------ the inputs
\* entrant lists: labels b+1 .. b+n
Bases == {0, 100}
TeamLists == {[k \in 1..n |-> b + k] : n \in 0..MaxLen, b \in Bases}

\* team tables: the 'Team' column, row k named 200 + (k mod NumNames)
DataFrames == {[k \in 1..n |-> 200 + (k % NumNames)] : n \in 0..MaxRows}
Swaps == {None} \cup {<<a, b>> : a \in 1..MaxRows, b \in 1..MaxRows}
Appends == {"", "N"}

\* "#" + seed + " " + append + " - " + Team, kept as its three parts
TeamLabel(seed, append, team) == <<seed, append, team>>

VARIABLES
    pc,            \* where the program is
    err,           \* the exception the last call raised, or NoError
    class_size,    \* self.class_size
    matchup_pairs, \* self.matchup_pairs
    \* draw_bracket
    left_teams, right_teams, left_bracket, right_bracket,
    \* _draw_sub_bracket
    ax,            \* 1: ax1 (drawn with direction 1), 2: ax2 (direction -1)
    teams, direction, num_teams, num_rounds,
    i, round_num, positions, next_positions,
    x1, y1, x2, y2,
    bound,         \* whether the locals x1, y1 have been assigned
    history,       \* per axis: the value of positions after the leaves and after each round
    plotted,       \* per axis: the number of ax.plot calls made
    \* get_tournament_seeds
    df, swap_teams, append, team_label, k, ordered_teams

engine == <<class_size, matchup_pairs>>
drawv == <<left_teams, right_teams, left_bracket, right_bracket>>
subv == <<ax, teams, direction, num_teams, num_rounds, i, round_num,
          positions, next_positions, x1, y1, x2, y2, bound, history, plotted>>
seedv == <<df, swap_teams, append, team_label, k, ordered_teams>>
vars == <<pc, err, engine, drawv, subv, seedv>>

Init ==
    /\ pc = "start"
    /\ err = NoError
    /\ class_size = 0
    /\ matchup_pairs = None
    /\ left_teams = << >> /\ right_teams = << >>
    /\ left_bracket = << >> /\ right_bracket = << >>
    /\ ax = 1
    /\ teams = << >> /\ direction = 1 /\ num_teams = 0 /\ num_rounds = 0
    /\ i = 0 /\ round_num = 0 /\ positions = << >> /\ next_positions = << >>
    /\ x1 = 0 /\ y1 = 0 /\ x2 = 0 /\ y2 = 0 /\ bound = FALSE
    /\ history = [a \in {1, 2} |-> << >>]
    /\ plotted = [a \in {1, 2} |-> 0]
    /\ df = << >> /\ swap_teams = None /\ append = "" /\ team_label = << >>
    /\ k = 0 /\ ordered_teams = << >>

\* The engine exists and no call has been made on it.  A call reads the engine
\* and its own arguments only (every other variable is a local it assigns
\* before reading), so a second call on the same engine starts as the first
\* one does, and one call per behaviour covers them.
Idle == pc = "ready"

\* __init__: stores the size and the pairing table; nothing is checked
Construct ==
    /\ pc = "start"
    /\ \E cs \in ClassSizes :
          /\ class_size' = cs
          /\ matchup_pairs' = GetSeedPairs(cs)
    /\ pc' = "ready"
    /\ UNCHANGED <<err, drawv, subv, seedv>>

\* ------------------------------------------------------------ draw_bracket
\* draw_bracket, lines 34-56: the split into halves and the recombination.
\* For a size other than 32 and 16 neither branch assigns north_top, and
\* line 53 raises UnboundLocalError.
DrawBracket ==
    /\ Idle
    /\ \E lt \in TeamLists, rt \in TeamLists :
          /\ left_teams' = lt
          /\ right_teams' = rt
          /\ IF class_size = 32 \/ class_size = 16
             THEN LET s == SplitAt(class_size)
                      north_top == Head_(lt, s)
                      north_bottom == Tail_(lt, s)
                      south_top == Head_(rt, s)
                      south_bottom == Tail_(rt, s)
                  IN  /\ left_bracket' = north_top \o south_bottom
                      /\ right_bracket' = south_top \o north_bottom
                      /\ pc' = "sub_enter"
                      /\ err' = NoError
             ELSE /\ left_bracket' = << >>
                  /\ right_bracket' = << >>
                  /\ pc' = "raised"
                  /\ err' = "UnboundLocalError"
    /\ ax' = 1
    /\ teams' = << >> /\ direction' = 1 /\ num_teams' = 0 /\ num_rounds' = 0
    /\ i' = 0 /\ round_num' = 0 /\ positions' = << >> /\ next_positions' = << >>
    /\ x1' = 0 /\ y1' = 0 /\ x2' = 0 /\ y2' = 0 /\ bound' = FALSE
    /\ history' = [a \in {1, 2} |-> << >>]
    /\ plotted' = [a \in {1, 2} |-> 0]
    /\ UNCHANGED <<engine, seedv>>

\* -------------------------------------------------------- _draw_sub_bracket
\* fault variant: n.bit_length() - 1, the floor of log2
NumRounds_floorLog(n) == BitLength(n) - 1

\* num_rounds = (num_teams - 1).bit_length()
NumRounds(n) == BitLength(n - 1)

\* fault variant: the leftward run also starts at 0
XStart_zero(dir, rounds) == 0

\* x_start = 0 if direction == 1 else self.round_width * num_rounds
XStart(dir, rounds) == IF dir = 1 THEN 0 ELSE RoundWidth * rounds

\* fault variant: y = (i + 0.5) * team_height, leaf 0 lowest
LeafY_ascending(n, idx) == ((2 * idx + 1) * TeamHeight * YScale) \div 2

\* y = (num_teams - i - 0.5) * self.team_height, i counted from 0
LeafY(n, idx) == ((2 * (n - idx) - 1) * TeamHeight * YScale) \div 2

\* next_x = x1 + (self.round_width * direction)
NextX(x, dir) == x + RoundWidth * dir

\* fault variant: the parent sits at the upper child's y
NextY_upper(ya, yb) == Max(ya, yb)

\* next_y = (y1 + y2) / 2
NextY(ya, yb) == (ya + yb) \div 2

\* lines 99-109: one call of _draw_sub_bracket starts; ax1 gets left_bracket
\* and direction 1, ax2 gets right_bracket and direction -1 (lines 59, 62)
SubEnter ==
    /\ pc = "sub_enter"
    /\ LET t == IF ax = 1 THEN left_bracket ELSE right_bracket
       IN  /\ teams' = t
           /\ num_teams' = Len(t)
           /\ num_rounds' = NumRounds(Len(t))
    /\ direction' = IF ax = 1 THEN 1 ELSE -1
    /\ positions' = << >>
    /\ next_positions' = << >>
    /\ i' = 0
    /\ round_num' = 0
    /\ x1' = 0 /\ y1' = 0 /\ x2' = 0 /\ y2' = 0 /\ bound' = FALSE
    /\ pc' = "leaves"
    /\ UNCHANGED <<err, engine, drawv, ax, history, plotted, seedv>>

\* lines 110-123: one iteration of the loop over the teams
LeafStep ==
    /\ pc = "leaves"
    /\ i < num_teams
    /\ positions' = Append(positions, <<XStart(direction, num_rounds), LeafY(num_teams, i)>>)
    /\ plotted' = [plotted EXCEPT ![ax] = @ + 1]
    /\ i' = i + 1
    /\ UNCHANGED <<pc, err, engine, drawv, ax, teams, direction, num_teams, num_rounds,
                   round_num, next_positions, x1, y1, x2, y2, bound, history, seedv>>

\* the loop over the teams ends
LeafDone ==
    /\ pc = "leaves"
    /\ i >= num_teams
    /\ history' = [history EXCEPT ![ax] = <<positions>>]
    /\ round_num' = 0
    /\ pc' = "rounds"
    /\ UNCHANGED <<err, engine, drawv, ax, teams, direction, num_teams, num_rounds,
                   i, positions, next_positions, x1, y1, x2, y2, bound, plotted, seedv>>

\* lines 126-127: a round starts
RoundStart ==
    /\ pc = "rounds"
    /\ round_num < num_rounds
    /\ next_positions' = << >>
    /\ i' = 0
    /\ pc' = "pairs"
    /\ UNCHANGED <<err, engine, drawv, ax, teams, direction, num_teams, num_rounds,
                   round_num, positions, x1, y1, x2, y2, bound, history, plotted, seedv>>

\* lines 129-143: positions[i] and positions[i + 1] merge into their parent
PairStep ==
    /\ pc = "pairs"
    /\ i < Len(positions)
    /\ i + 1 < Len(positions)
    /\ LET p == positions[i + 1]
           q == positions[i + 2]
       IN  /\ x1' = p[1] /\ y1' = p[2]
           /\ x2' = q[1] /\ y2' = q[2]
           /\ next_positions' =
                 Append(next_positions, <<NextX(p[1], direction), NextY(p[2], q[2])>>)
    /\ bound' = TRUE
    /\ plotted' = [plotted EXCEPT ![ax] = @ + 4]
    /\ i' = i + 2
    /\ UNCHANGED <<pc, err, engine, drawv, ax, teams, direction, num_teams, num_rounds,
                   round_num, positions, history, seedv>>

\* lines 144-146: the node appended for an unpaired last node.  The branch
\* assigns neither x1 nor y1: it reads the values the previous pair left.
ByeNode(sx, sy, dir) == <<NextX(sx, dir), sy>>

\* lines 144-146: the last node of an odd round has no sibling
ByeStep ==
    /\ pc = "pairs"
    /\ i < Len(positions)
    /\ ~(i + 1 < Len(positions))
    /\ IF bound
       THEN /\ next_positions' = Append(next_positions, ByeNode(x1, y1, direction))
            /\ i' = i + 2
            /\ UNCHANGED <<pc, err>>
       ELSE /\ pc' = "raised"
            /\ err' = "UnboundLocalError"
            /\ UNCHANGED <<next_positions, i>>
    /\ UNCHANGED <<engine, drawv, ax, teams, direction, num_teams, num_rounds,
                   round_num, positions, x1, y1, x2, y2, bound, history, plotted, seedv>>

\* line 148: the round ends
RoundEnd ==
    /\ pc = "pairs"
    /\ i >= Len(positions)
    /\ positions' = next_positions
    /\ history' = [history EXCEPT ![ax] = Append(@, next_positions)]
    /\ round_num' = round_num + 1
    /\ pc' = "rounds"
    /\ UNCHANGED <<err, engine, drawv, ax, teams, direction, num_teams, num_rounds,
                   i, next_positions, x1, y1, x2, y2, bound, plotted, seedv>>

\* the call for ax1 returns and line 62 calls for ax2
SubReturnLeft ==
    /\ pc = "rounds"
    /\ round_num >= num_rounds
    /\ ax = 1
    /\ ax' = 2
    /\ pc' = "sub_enter"
    /\ UNCHANGED <<err, engine, drawv, teams, direction, num_teams, num_rounds,
                   i, round_num, positions, next_positions, x1, y1, x2, y2, bound,
                   history, plotted, seedv>>

\* the call for ax2 returns; lines 64-84 decorate the figure and return it
SubReturnRight ==
    /\ pc = "rounds"
    /\ round_num >= num_rounds
    /\ ax = 2
    /\ pc' = "returned"
    /\ UNCHANGED <<err, engine, drawv, subv, seedv>>

\* ------------------------------------------------------ get_tournament_seeds
\* rows of the table whose 'seed' is s (the table seeds its rows 1..n: line 167)
HasSeed(labels, s) == s \in 1..Len(labels)

\* lines 162-170: the seeds 1..n and the label of every row
SeedsCall ==
    /\ Idle
    /\ \E d \in DataFrames, sw \in Swaps, ap \in Appends :
          /\ df' = d
          /\ swap_teams' = sw
          /\ append' = ap
          /\ team_label' = [s \in 1..Len(d) |-> TeamLabel(s, ap, d[s])]
    /\ ordered_teams' = << >>
    /\ k' = 1
    /\ err' = NoError
    /\ pc' = "seed_swap"
    /\ UNCHANGED <<engine, drawv, subv>>

\* fault variant: no temp, the label of a is lost
SwapLabels_overwrite(labels, a, b) == [labels EXCEPT ![a] = labels[b]]

\* lines 176-178: temp = label of a; label of a = label of b; label of b = temp
SwapLabels(labels, a, b) == [labels EXCEPT ![a] = labels[b], ![b] = labels[a]]

\* lines 173-178: the swap, when one is asked for; a seed that no row has makes
\* .iloc[0] raise IndexError
SeedsSwap ==
    /\ pc = "seed_swap"
    /\ IF swap_teams = None
       THEN /\ pc' = "seed_loop"
            /\ UNCHANGED <<team_label, err>>
       ELSE IF HasSeed(team_label, swap_teams[1]) /\ HasSeed(team_label, swap_teams[2])
       THEN /\ team_label' = SwapLabels(team_label, swap_teams[1], swap_teams[2])
            /\ pc' = "seed_loop"
            /\ UNCHANGED err
       ELSE /\ pc' = "raised"
            /\ err' = "IndexError"
            /\ UNCHANGED team_label
    /\ UNCHANGED <<engine, drawv, subv, df, swap_teams, append, k, ordered_teams>>

\* line 180 on an engine without a pairing table: None is not iterable
SeedsNoTable ==
    /\ pc = "seed_loop"
    /\ matchup_pairs = None
    /\ pc' = "raised"
    /\ err' = "TypeError"
    /\ UNCHANGED <<engine, drawv, subv, seedv>>

\* fault variant: seed_b emitted before seed_a
PairOrder_reversed(pair) == <<pair[2], pair[1]>>

\* lines 180-184: the order in which a pair's two seeds are emitted
PairOrder(pair) == <<pair[1], pair[2]>>

\* lines 180-184: one matchup pair
SeedsPair ==
    /\ pc = "seed_loop"
    /\ matchup_pairs # None
    /\ k <= Len(matchup_pairs)
    /\ LET seed1 == PairOrder(matchup_pairs[k])[1]
           seed2 == PairOrder(matchup_pairs[k])[2]
       IN  IF HasSeed(team_label, seed1) /\ HasSeed(team_label, seed2)
           THEN /\ ordered_teams' = ordered_teams \o <<team_label[seed1], team_label[seed2]>>
                /\ k' = k + 1
                /\ UNCHANGED <<pc, err>>
           ELSE /\ pc' = "raised"
                /\ err' = "IndexError"
                /\ UNCHANGED <<ordered_teams, k>>
    /\ UNCHANGED <<engine, drawv, subv, df, swap_teams, append, team_label>>

\* line 186
SeedsReturn ==
    /\ pc = "seed_loop"
    /\ matchup_pairs # None
    /\ k > Len(matchup_pairs)
    /\ pc' = "seeds_returned"
    /\ UNCHANGED <<err, engine, drawv, subv, seedv>>

Next ==
    \/ Construct
    \/ DrawBracket
    \/ SubEnter
    \/ LeafStep
    \/ LeafDone
    \/ RoundStart
    \/ PairStep
    \/ ByeStep
    \/ RoundEnd
    \/ SubReturnLeft
    \/ SubReturnRight

\* an engine is constructed and draw_bracket is called on it
Spec == Init /\ [][Next]_vars

NextSeeds ==
    \/ Construct
    \/ SeedsCall
    \/ SeedsSwap
    \/ SeedsNoTable
    \/ SeedsPair
    \/ SeedsReturn

\* an engine is constructed and get_tournament_seeds is called on it
SpecSeeds == Init /\ [][NextSeeds]_vars

\* ============================================================ properties
\* the axis' leaf sequence and draw direction (lines 59 and 62)
Leaves(a) == IF a = 1 THEN left_bracket ELSE right_bracket
Dir(a) == IF a = 1 THEN 1 ELSE -1

\* a draw_bracket call has passed its split (it did not raise at line 53)
Drawing == pc \in {"sub_enter", "leaves", "rounds", "pairs", "returned"}

\* the _draw_sub_bracket call for axis a has run all its rounds
AxDone(a) ==
    /\ pc \in {"sub_enter", "rounds", "leaves", "pairs", "returned"}
    /\ \/ a = 1 /\ ax = 2
       \/ a = ax /\ pc = "rounds" /\ round_num >= num_rounds
       \/ a = ax /\ a = 2 /\ pc = "returned"

\* ceil(log2(n)) for n >= 1: the least r with 2^r >= n
CeilLog2(n) == CHOOSE r \in 0..n : Pow2(r) >= n /\ (r = 0 \/ Pow2(r - 1) < n)

IsPow2(n) == n >= 1 /\ Pow2(CeilLog2(n)) = n

\* how often seed s occurs in a pairing table
Occurrences(pairs, s) ==
    Cardinality({c \in (1..Len(pairs)) \X {1, 2} : pairs[c[1]][c[2]] = s})

\* C1: an engine of size 32 holds exactly the pairs (1,16)(8,9)(4,13)(5,12)
\* (3,14)(6,11)(7,10)(2,15), one of size 16 exactly (1,8)(4,5)(3,6)(2,7), in
\* that order, and the pairs hold every seed 1..class_size/2 exactly once and
\* nothing else.
C1_SeedPairs ==
    (pc # "start" /\ class_size \in {16, 32}) =>
        /\ class_size = 32 =>
              matchup_pairs = << <<1, 16>>, <<8, 9>>, <<4, 13>>, <<5, 12>>,
                                 <<3, 14>>, <<6, 11>>, <<7, 10>>, <<2, 15>> >>
        /\ class_size = 16 =>
              matchup_pairs = << <<1, 8>>, <<4, 5>>, <<3, 6>>, <<2, 7>> >>
        /\ 2 * Len(matchup_pairs) = class_size \div 2
        /\ \A s \in 1..(class_size \div 2) : Occurrences(matchup_pairs, s) = 1
        /\ \A c \in 1..Len(matchup_pairs) :
              matchup_pairs[c][1] \in 1..(class_size \div 2)
              /\ matchup_pairs[c][2] \in 1..(class_size \div 2)

\* an engine of size 32 whose table get_tournament_seeds has walked to the end
C1_Witness ==
    pc = "seeds_returned" /\ class_size = 32 /\ Len(ordered_teams) = 16

\* C2: for size 32 (s = 8) and size 16 (s = 4) the physical-left region is the
\* first s entries of the left list followed by the right list's entries from
\* index s on, the physical-right region the first s entries of the right list
\* followed by the left list's entries from index s on, order kept; ax1 draws
\* the former rightward and ax2 the latter leftward.
C2_RegionSplit ==
    Drawing =>
        LET s == IF class_size = 32 THEN 8 ELSE 4
            nl == Min(s, Len(left_teams))
            nr == Min(s, Len(right_teams))
        IN  /\ class_size \in {16, 32}
            /\ Len(left_bracket) = nl + (Len(right_teams) - nr)
            /\ \A j \in 1..Len(left_bracket) :
                  left_bracket[j] = IF j <= nl THEN left_teams[j]
                                    ELSE right_teams[s + (j - nl)]
            /\ Len(right_bracket) = nr + (Len(left_teams) - nl)
            /\ \A j \in 1..Len(right_bracket) :
                  right_bracket[j] = IF j <= nr THEN right_teams[j]
                                     ELSE left_teams[s + (j - nr)]
            /\ pc \in {"leaves", "rounds", "pairs", "returned"} =>
                  teams = Leaves(ax) /\ direction = Dir(ax)

\* a size-16 draw of two different lists, each longer than the split point,
\* has been laid out
C2_Witness ==
    /\ pc = "returned" /\ class_size = 16
    /\ Len(left_teams) = 8 /\ Len(right_teams) = 7
    /\ left_teams[1] # right_teams[1]

\* C3: with no swap, get_tournament_seeds returns 2 x (number of pairs) labels;
\* for the k-th pair (a, b) the entries 2k and 2k+1 (counted from 0) are the
\* labels of row a and of row b, rows numbered 1..n in the given order.
C3_SeedsOrder ==
    (pc = "seeds_returned" /\ swap_teams = None) =>
        /\ Len(ordered_teams) = 2 * Len(matchup_pairs)
        /\ \A c \in 1..Len(matchup_pairs) :
              LET a == matchup_pairs[c][1]
                  b == matchup_pairs[c][2]
              IN  /\ a \in 1..Len(df) /\ b \in 1..Len(df)
                  /\ ordered_teams[2 * c - 1] = <<a, append, df[a]>>
                  /\ ordered_teams[2 * c] = <<b, append, df[b]>>

\* a 32-size call on a table of 17 rows without a swap has returned
C3_Witness ==
    /\ pc = "seeds_returned" /\ class_size = 32 /\ Len(df) = 17
    /\ swap_teams = None /\ Len(ordered_teams) = 16

\* the seed whose label a slot of seed s shows after swapping a and b
Swapped(s, a, b) == IF s = a THEN b ELSE IF s = b THEN a ELSE s

\* C4: with a swap (a, b) of existing seeds the output has the length and the
\* pair order of the call without a swap; the slot of seed a holds the label
\* built for seed b, the slot of seed b the label built for seed a, and every
\* other slot the label of its own seed.
C4_SwapFrame ==
    (pc = "seeds_returned" /\ swap_teams # None) =>
        LET a == swap_teams[1]
            b == swap_teams[2]
        IN  /\ a \in 1..Len(df) /\ b \in 1..Len(df)
            /\ Len(ordered_teams) = 2 * Len(matchup_pairs)
            /\ \A c \in 1..Len(matchup_pairs), j \in {1, 2} :
                  LET s == matchup_pairs[c][j]
                      t == Swapped(s, a, b)
                  IN  ordered_teams[2 * (c - 1) + j] = <<t, append, df[t]>>

\* a call that swapped two different seeds which both have an output slot
C4_Witness ==
    /\ pc = "seeds_returned" /\ class_size = 16
    /\ swap_teams = <<1, 2>>
    /\ ordered_teams[1][1] = 2 /\ ordered_teams[7][1] = 1

\* C5: no engine exists whose size is not 16 or 32 (construction fails), so
\* no engine without a pairing table is ever produced.
C5_UnsupportedSizeRejected ==
    pc # "start" => (class_size \in {16, 32} /\ matchup_pairs # None)

\* C6: in a round with an odd number m >= 3 of nodes, the unpaired last node
\* is carried to the next round with its own y and its x advanced by one
\* round_width in the draw direction.
C6_ByeKeepsOwnY ==
    \A a \in {1, 2} : \A r \in 1..(Len(history[a]) - 1) :
        LET prev == history[a][r]
            nxt == history[a][r + 1]
            m == Len(prev)
        IN  (m >= 3 /\ m % 2 = 1) =>
               /\ Len(nxt) = (m + 1) \div 2
               /\ nxt[Len(nxt)] = <<prev[m][1] + RoundWidth * Dir(a), prev[m][2]>>

\* C7: for N >= 1 leaves num_rounds is ceil(log2(N)); a round over m nodes
\* gives ceil(m/2) nodes; exactly num_rounds rounds run and one position is
\* left.
C7_Rounds ==
    \A a \in {1, 2} :
        LET n == Len(Leaves(a))
        IN  (Drawing /\ n >= 1) =>
               /\ (a = ax /\ pc \in {"leaves", "rounds", "pairs"}) =>
                     num_rounds = CeilLog2(n) /\ round_num <= num_rounds
               /\ Len(history[a]) <= CeilLog2(n) + 1
               /\ \A r \in 1..(Len(history[a]) - 1) :
                     Len(history[a][r + 1]) = (Len(history[a][r]) + 1) \div 2
               /\ AxDone(a) =>
                     /\ Len(history[a]) = CeilLog2(n) + 1
                     /\ Len(history[a][1]) = n
                     /\ Len(history[a][Len(history[a])]) = 1
                     /\ a = ax => Len(positions) = 1

\* the runs over 8 and over 5 leaves have ended: 3 rounds each, one position left
C7_Witness ==
    /\ pc = "returned"
    /\ Len(left_bracket) = 8 /\ Len(right_bracket) = 5
    /\ Len(history[1]) = 4 /\ Len(history[2]) = 4
    /\ Len(history[1][4]) = 1 /\ Len(positions) = 1

\* C8: for a power-of-two leaf count, node k of round r+1 has the midpoint of
\* the y of nodes 2k and 2k+1 of round r and their x advanced by one
\* round_width in the draw direction; all nodes of round r have
\* x = x_start + r * direction * round_width.
C8_Midpoints ==
    \A a \in {1, 2} :
        LET n == Len(Leaves(a))
            xs == IF a = 1 THEN 0 ELSE RoundWidth * CeilLog2(n)
        IN  (Drawing /\ IsPow2(n)) =>
               /\ \A r \in 1..Len(history[a]) : \A c \in 1..Len(history[a][r]) :
                     history[a][r][c][1] = xs + (r - 1) * Dir(a) * RoundWidth
               /\ \A r \in 1..(Len(history[a]) - 1) : \A c \in 1..Len(history[a][r + 1]) :
                     LET p == history[a][r][2 * c - 1]
                         q == history[a][r][2 * c]
                         parent == history[a][r + 1][c]
                     IN  /\ 2 * parent[2] = p[2] + q[2]
                         /\ parent[1] = p[1] + RoundWidth * Dir(a)
                         /\ parent[1] = q[1] + RoundWidth * Dir(a)

\* both runs over 16 leaves have ended
C8_Witness ==
    /\ pc = "returned"
    /\ Len(left_bracket) = 16 /\ Len(right_bracket) = 16
    /\ Len(history[1]) = 5 /\ Len(history[2]) = 5

\* C9: on the same leaf sequence the leftward run gives every node of every
\* round the y of the rightward run and the x mirrored:
\* round_width * num_rounds - x.
C9_DirectionSymmetry ==
    (Drawing /\ left_bracket = right_bracket) =>
        /\ Len(history[2]) <= Len(history[1])
        /\ AxDone(2) => Len(history[2]) = Len(history[1])
        /\ \A r \in 1..Len(history[2]) :
              /\ Len(history[2][r]) = Len(history[1][r])
              /\ \A c \in 1..Len(history[2][r]) :
                    /\ history[2][r][c][2] = history[1][r][c][2]
                    /\ history[2][r][c][1] =
                          RoundWidth * BitLength(Len(left_bracket) - 1)
                             - history[1][r][c][1]

\* both runs over the same 7 leaves (odd rounds included) have ended
C9_Witness ==
    /\ pc = "returned"
    /\ left_bracket = right_bracket /\ Len(left_bracket) = 7
    /\ Len(history[2]) = 4

\* C10: leaf i (from 0) of N is at y = (N - i - 0.5) * unit_height, so y falls
\* strictly with the index and leaf 0 is highest; every leaf's x is 0 for
\* direction +1 and round_width * num_rounds for direction -1.
C10_LeafPositions ==
    \A a \in {1, 2} :
        LET n == Len(Leaves(a))
        IN  (Drawing /\ Len(history[a]) >= 1) =>
               LET leaf == history[a][1]
               IN  /\ Len(leaf) = n
                   /\ \A c \in 1..n :
                         /\ 2 * leaf[c][2] = (2 * (n - (c - 1)) - 1) * YScale
                         /\ leaf[c][1] = IF a = 1 THEN 0
                                         ELSE RoundWidth * CeilLog2(n)
                   /\ \A c \in 1..(n - 1) : leaf[c][2] > leaf[c + 1][2]

\* four leaves on each side: y = 3.5, 2.5, 1.5, 0.5, x = 0 on ax1 and 8 on ax2
C10_Witness ==
    /\ pc = "returned"
    /\ Len(left_bracket) = 4 /\ Len(right_bracket) = 4
    /\ [c \in 1..4 |-> 2 * history[1][1][c][2]] =
          <<7 * YScale, 5 * YScale, 3 * YScale, YScale>>
    /\ \A c \in 1..4 : history[1][1][c][1] = 0 /\ history[2][1][c][1] = 8

====
